---- MODULE Spec2Model ----
(***************************************************************************)
(* Sleeper bus ticket booking API (src/main.py): the in-memory bookings    *)
(* list and the HTTP handlers that read and change it.                      *)
(*                                                                          *)
(* A Python str is modelled as a sequence of one-character strings, so     *)
(* that str.strip() and len() are computed and not assumed.  Python lists   *)
(* are sequences; a Python index i is the sequence index i + 1.             *)
(***************************************************************************)
EXTENDS Integers, Sequences, FiniteSets, TLC

(***************************************************************************)
(* Bound of the model: inputs are padded with 0..MaxPad blanks on each side *)
(***************************************************************************)
MaxPad == 1

(***************************************************************************)
(* Program constants                                                        *)
(***************************************************************************)
TOTAL_SEATS == 30

DECK_SIZE == 15

NAME_MIN_LENGTH == 2

NAME_MAX_LENGTH == 80

STATION_MAX_LENGTH == 60

MEAL_MIN_LENGTH == 2

MEAL_MAX_LENGTH == 60

Ahmedabad == <<"A", "h", "m", "e", "d", "a", "b", "a", "d", " ", "(", "P", "a", "l", "d", "i", ")">>

Nadiad == <<"N", "a", "d", "i", "a", "d">>

Anand == <<"A", "n", "a", "n", "d">>

Vadodara == <<"V", "a", "d", "o", "d", "a", "r", "a">>

Bharuch == <<"B", "h", "a", "r", "u", "c", "h">>

Surat == <<"S", "u", "r", "a", "t">>

Navsari == <<"N", "a", "v", "s", "a", "r", "i">>

Valsad == <<"V", "a", "l", "s", "a", "d">>

Vapi == <<"V", "a", "p", "i">>

Mumbai == <<"M", "u", "m", "b", "a", "i", " ", "(", "D", "a", "d", "a", "r", ")">>

STATIONS == <<Ahmedabad, Nadiad, Anand, Vadodara, Bharuch, Surat, Navsari, Valsad, Vapi, Mumbai>>

DEFAULT_PICKUP_STATION == STATIONS[1]

DEFAULT_DROP_STATION == STATIONS[Len(STATIONS)]

\* Python's None.  No str equals it: every element of a str is one character.
None == <<"None">>

\* A field the JSON body of a request leaves out.
Absent == <<"Absent">>

(***************************************************************************)
(* str and list helpers                                                     *)
(***************************************************************************)
\* The characters str.strip() removes (the ones the inputs below use).
Whitespace == {" ", "\t", "\n"}

RECURSIVE lstrip(_)
lstrip(s) == IF s # <<>> /\ Head(s) \in Whitespace THEN lstrip(Tail(s)) ELSE s

RECURSIVE rstrip(_)
rstrip(s) ==
    IF s # <<>> /\ s[Len(s)] \in Whitespace THEN rstrip(SubSeq(s, 1, Len(s) - 1)) ELSE s

\* Mutant of strip: only the leading whitespace is removed (str.lstrip)
strip_leading_only(s) == lstrip(s)

\* str.strip()
strip(s) == rstrip(lstrip(s))

\* x in STATIONS
InStations(x) == \E i \in 1..Len(STATIONS) : STATIONS[i] = x

\* STATIONS.index(x), for x in STATIONS: the first position holding x
StationIndex(x) ==
    (CHOOSE i \in 1..Len(STATIONS) :
        /\ STATIONS[i] = x
        /\ \A j \in 1..(i - 1) : STATIONS[j] # x) - 1

\* Mutant of PopAt: list.pop() without the index removes the last element
PopLast(bks, i) == SubSeq(bks, 1, Len(bks) - 1)

\* list.pop(index): the list without the element at that position
PopAt(bks, i) == SubSeq(bks, 1, i - 1) \o SubSeq(bks, i + 1, Len(bks))

DigitChars == <<"0", "1", "2", "3", "4", "5", "6", "7", "8", "9">>

\* f"{n:02d}" for 0 <= n <= 99
Format02d(n) == <<DigitChars[(n \div 10) + 1], DigitChars[(n % 10) + 1]>>

(***************************************************************************)
(* Pydantic models: the constraints of their fields                         *)
(***************************************************************************)
\* Booking(...) validates: anything else raises pydantic's ValidationError
BookingValid(b) ==
    /\ Len(b.passenger_name) >= NAME_MIN_LENGTH
    /\ Len(b.passenger_name) <= NAME_MAX_LENGTH
    /\ Len(b.pickup_station) <= STATION_MAX_LENGTH
    /\ Len(b.drop_station) <= STATION_MAX_LENGTH
    /\ (b.meal_preference = None \/ Len(b.meal_preference) <= MEAL_MAX_LENGTH)

\* BookRequest: the defaults of the fields the body leaves out
BookRequest(raw) ==
    [seat_id |-> raw.seat_id,
     passenger_name |-> raw.passenger_name,
     pickup_station |->
        IF raw.pickup_station = Absent THEN DEFAULT_PICKUP_STATION ELSE raw.pickup_station,
     drop_station |->
        IF raw.drop_station = Absent THEN DEFAULT_DROP_STATION ELSE raw.drop_station,
     meal_preference |->
        IF raw.meal_preference = Absent THEN None ELSE raw.meal_preference]

\* Mutant of BookRequestValid: seat_id has its lower limit only (ge=1, no le)
BookRequestValid_no_le(request) ==
    /\ request.seat_id >= 1
    /\ Len(request.passenger_name) >= NAME_MIN_LENGTH
    /\ Len(request.passenger_name) <= NAME_MAX_LENGTH
    /\ Len(request.pickup_station) <= STATION_MAX_LENGTH
    /\ Len(request.drop_station) <= STATION_MAX_LENGTH
    /\ (request.meal_preference = None
            \/ Len(request.meal_preference) <= MEAL_MAX_LENGTH)

\* BookRequest: the body passes validation
BookRequestValid(request) ==
    /\ request.seat_id >= 1
    /\ request.seat_id <= TOTAL_SEATS
    /\ Len(request.passenger_name) >= NAME_MIN_LENGTH
    /\ Len(request.passenger_name) <= NAME_MAX_LENGTH
    /\ Len(request.pickup_station) <= STATION_MAX_LENGTH
    /\ Len(request.drop_station) <= STATION_MAX_LENGTH
    /\ (request.meal_preference = None
            \/ Len(request.meal_preference) <= MEAL_MAX_LENGTH)

\* Mutant of MealRequestValid: seat_id is a plain int, without ge and le
MealRequestValid_any_seat(request) ==
    /\ Len(request.meal_preference) >= MEAL_MIN_LENGTH
    /\ Len(request.meal_preference) <= MEAL_MAX_LENGTH

\* MealRequest: the body passes validation
MealRequestValid(request) ==
    /\ request.seat_id >= 1
    /\ request.seat_id <= TOTAL_SEATS
    /\ Len(request.meal_preference) >= MEAL_MIN_LENGTH
    /\ Len(request.meal_preference) <= MEAL_MAX_LENGTH

\* the path parameter of DELETE /cancel/{seat_id} passes validation
CancelSeatIdValid(seat_id) == seat_id >= 1 /\ seat_id <= TOTAL_SEATS

(***************************************************************************)
(* Helpers of the handlers.  The module-level list `bookings` they read is  *)
(* the parameter bks.                                                        *)
(***************************************************************************)
normalize_station_name(station_name) == strip(station_name)

\* Mutant of validate_route_stations: the order test is > where the code has >=
validate_route_stations_gt(pickup_station, drop_station) ==
    LET normalized_pickup == normalize_station_name(pickup_station)
        normalized_drop == normalize_station_name(drop_station)
    IN  IF ~InStations(normalized_pickup)
        THEN [ok |-> FALSE, detail |-> "Invalid pickup_station"]
        ELSE IF ~InStations(normalized_drop)
        THEN [ok |-> FALSE, detail |-> "Invalid drop_station"]
        ELSE IF StationIndex(normalized_pickup) > StationIndex(normalized_drop)
        THEN [ok |-> FALSE, detail |-> "pickup_station must be before drop_station"]
        ELSE [ok |-> TRUE, pickup_station |-> normalized_pickup,
              drop_station |-> normalized_drop]

\* Mutant of validate_route_stations: the drop station is never looked up
validate_route_stations_pickup_only(pickup_station, drop_station) ==
    LET normalized_pickup == normalize_station_name(pickup_station)
        normalized_drop == normalize_station_name(drop_station)
    IN  IF ~InStations(normalized_pickup)
        THEN [ok |-> FALSE, detail |-> "Invalid pickup_station"]
        ELSE IF /\ InStations(normalized_drop)
                /\ StationIndex(normalized_pickup) >= StationIndex(normalized_drop)
        THEN [ok |-> FALSE, detail |-> "pickup_station must be before drop_station"]
        ELSE [ok |-> TRUE, pickup_station |-> normalized_pickup,
              drop_station |-> normalized_drop]

\* The result of _validate_route_stations: ok with the normalised pair, or
\* the detail of the HTTPException(400) it raises.
validate_route_stations(pickup_station, drop_station) ==
    LET normalized_pickup == normalize_station_name(pickup_station)
        normalized_drop == normalize_station_name(drop_station)
    IN  IF ~InStations(normalized_pickup)
        THEN [ok |-> FALSE, detail |-> "Invalid pickup_station"]
        ELSE IF ~InStations(normalized_drop)
        THEN [ok |-> FALSE, detail |-> "Invalid drop_station"]
        ELSE IF StationIndex(normalized_pickup) >= StationIndex(normalized_drop)
        THEN [ok |-> FALSE, detail |-> "pickup_station must be before drop_station"]
        ELSE [ok |-> TRUE, pickup_station |-> normalized_pickup,
              drop_station |-> normalized_drop]

\* Mutant of seat_label: the deck test is < where the code has <=
seat_label_lt(seat_id) ==
    LET deck == IF seat_id < DECK_SIZE THEN "U" ELSE "L"
        position == IF seat_id < DECK_SIZE THEN seat_id ELSE seat_id - DECK_SIZE
    IN  <<deck>> \o Format02d(position)

seat_label(seat_id) ==
    LET deck == IF seat_id <= DECK_SIZE THEN "U" ELSE "L"
        position == IF seat_id <= DECK_SIZE THEN seat_id ELSE seat_id - DECK_SIZE
    IN  <<deck>> \o Format02d(position)

\* The sequence index of the first booking of seat_id; NoIndex is Python's None
NoIndex == 0

\* Mutant of find_booking_index: Python index 0 where the code returns None
find_booking_index_or_first(bks, seat_id) ==
    IF \E i \in 1..Len(bks) : bks[i].seat_id = seat_id
    THEN CHOOSE i \in 1..Len(bks) :
            /\ bks[i].seat_id = seat_id
            /\ \A j \in 1..(i - 1) : bks[j].seat_id # seat_id
    ELSE IF bks # <<>> THEN 1 ELSE NoIndex

find_booking_index(bks, seat_id) ==
    IF \E i \in 1..Len(bks) : bks[i].seat_id = seat_id
    THEN CHOOSE i \in 1..Len(bks) :
            /\ bks[i].seat_id = seat_id
            /\ \A j \in 1..(i - 1) : bks[j].seat_id # seat_id
    ELSE NoIndex

\* Mutant of is_seat_booked: any booking in the list makes the seat booked
is_seat_booked_nonempty(bks, seat_id) == bks # <<>>

\* Mutant of is_seat_booked: no seat is ever seen as booked
is_seat_booked_never(bks, seat_id) == FALSE

is_seat_booked(bks, seat_id) == find_booking_index(bks, seat_id) # NoIndex

SeedRows ==
    <<[seat_id |-> 2,
       passenger_name |-> <<"R", "i", "y", "a", " ", "S", "h", "a", "h">>,
       meal |-> <<"V", "e", "g", "e", "t", "a", "r", "i", "a", "n">>],
      [seat_id |-> 7,
       passenger_name |-> <<"A", "a", "r", "a", "v", " ", "M", "e", "h", "t", "a">>,
       meal |-> <<"J", "a", "i", "n">>],
      [seat_id |-> 16,
       passenger_name |-> <<"N", "e", "h", "a", " ", "P", "a", "t", "e", "l">>,
       meal |-> <<"V", "e", "g", "e", "t", "a", "r", "i", "a", "n">>],
      [seat_id |-> 23,
       passenger_name |-> <<"K", "a", "b", "i", "r", " ", "D", "e", "s", "a", "i">>,
       meal |-> <<"N", "o", "n", "-", "V", "e", "g", "e", "t", "a", "r", "i", "a", "n">>],
      [seat_id |-> 29,
       passenger_name |-> <<"I", "s", "h", "i", "t", "a", " ", "J", "o", "s", "h", "i">>,
       meal |-> <<"V", "e", "g", "e", "t", "a", "r", "i", "a", "n">>]>>

\* The list after _seed_initial_bookings() ran on the empty list at import
seed_initial_bookings ==
    [i \in 1..Len(SeedRows) |->
        [seat_id |-> SeedRows[i].seat_id,
         passenger_name |-> SeedRows[i].passenger_name,
         pickup_station |-> DEFAULT_PICKUP_STATION,
         drop_station |-> DEFAULT_DROP_STATION,
         meal_preference |-> SeedRows[i].meal]]

(***************************************************************************)
(* The handlers.  Each yields the list it leaves, the HTTP status of the    *)
(* answer and the answer's body (the detail of the HTTPException raised).   *)
(***************************************************************************)
\* Mutant of book_seat: the route is validated before the seat is looked up
book_seat_route_first(bks, request) ==
    LET route == validate_route_stations(request.pickup_station, request.drop_station)
    IN  IF ~route.ok
        THEN [bookings |-> bks, status |-> 400, response |-> route.detail]
        ELSE IF is_seat_booked(bks, request.seat_id)
        THEN [bookings |-> bks, status |-> 409, response |-> "Seat is already booked"]
        ELSE
        LET booking ==
                [seat_id |-> request.seat_id,
                 passenger_name |-> strip(request.passenger_name),
                 pickup_station |-> route.pickup_station,
                 drop_station |-> route.drop_station,
                 meal_preference |->
                    IF request.meal_preference # None /\ request.meal_preference # <<>>
                    THEN strip(request.meal_preference)
                    ELSE None]
        IN  IF ~BookingValid(booking)
            THEN [bookings |-> bks, status |-> 500, response |-> "Internal Server Error"]
            ELSE [bookings |-> Append(bks, booking), status |-> 200, response |-> booking]

\* Mutant of book_seat_after_check: the seat is looked up again before the append
book_seat_after_check_rechecks(bks, request) ==
    LET route == validate_route_stations(request.pickup_station, request.drop_station)
        booking ==
            [seat_id |-> request.seat_id,
             passenger_name |-> strip(request.passenger_name),
             pickup_station |-> route.pickup_station,
             drop_station |-> route.drop_station,
             meal_preference |->
                IF request.meal_preference # None /\ request.meal_preference # <<>>
                THEN strip(request.meal_preference)
                ELSE None]
    IN  IF ~route.ok
        THEN [bookings |-> bks, status |-> 400, response |-> route.detail]
        ELSE IF ~BookingValid(booking)
        THEN [bookings |-> bks, status |-> 500, response |-> "Internal Server Error"]
        ELSE IF is_seat_booked(bks, request.seat_id)
        THEN [bookings |-> bks, status |-> 409, response |-> "Seat is already booked"]
        ELSE [bookings |-> Append(bks, booking), status |-> 200, response |-> booking]

\* book_seat from the call of _validate_route_stations on: what a request
\* that found its seat free goes on to do
book_seat_after_check(bks, request) ==
    LET route == validate_route_stations(request.pickup_station, request.drop_station)
    IN  IF ~route.ok
        THEN [bookings |-> bks, status |-> 400, response |-> route.detail]
        ELSE
        LET booking ==
                [seat_id |-> request.seat_id,
                 passenger_name |-> strip(request.passenger_name),
                 pickup_station |-> route.pickup_station,
                 drop_station |-> route.drop_station,
                 meal_preference |->
                    \* truthiness: None and "" are false
                    IF request.meal_preference # None /\ request.meal_preference # <<>>
                    THEN strip(request.meal_preference)
                    ELSE None]
        IN  IF ~BookingValid(booking)
            \* pydantic's ValidationError is no HTTPException: the server answers 500
            THEN [bookings |-> bks, status |-> 500, response |-> "Internal Server Error"]
            ELSE [bookings |-> Append(bks, booking), status |-> 200, response |-> booking]

\* POST /book, on a validated BookRequest
book_seat(bks, request) ==
    IF is_seat_booked(bks, request.seat_id)
    THEN [bookings |-> bks, status |-> 409, response |-> "Seat is already booked"]
    ELSE book_seat_after_check(bks, request)

\* Mutant of add_meal_to_booking: the updated copy is appended, the old record kept
add_meal_appends(bks, request) ==
    LET booking_index == find_booking_index(bks, request.seat_id)
    IN  IF booking_index = NoIndex
        THEN [bookings |-> bks, status |-> 404,
              response |-> "Booking not found for this seat"]
        ELSE
        LET updated_booking ==
                [bks[booking_index] EXCEPT
                    !.meal_preference = strip(request.meal_preference)]
        IN  [bookings |-> Append(bks, updated_booking),
             status |-> 200, response |-> updated_booking]

\* POST /meal, on a validated MealRequest
add_meal_to_booking(bks, request) ==
    LET booking_index == find_booking_index(bks, request.seat_id)
    IN  IF booking_index = NoIndex
        THEN [bookings |-> bks, status |-> 404,
              response |-> "Booking not found for this seat"]
        ELSE
        LET existing_booking == bks[booking_index]
            \* model_copy(update=...) copies without validating
            updated_booking ==
                [existing_booking EXCEPT !.meal_preference = strip(request.meal_preference)]
        IN  [bookings |-> [bks EXCEPT ![booking_index] = updated_booking],
             status |-> 200, response |-> updated_booking]

\* DELETE /cancel/{seat_id}, on a validated seat_id
cancel_booking(bks, seat_id) ==
    LET booking_index == find_booking_index(bks, seat_id)
    IN  IF booking_index = NoIndex
        THEN [bookings |-> bks, status |-> 404,
              response |-> "No active booking for this seat"]
        ELSE
        LET cancelled_booking == bks[booking_index]
        IN  [bookings |-> PopAt(bks, booking_index), status |-> 200,
             response |-> [status |-> "cancelled", seat_id |-> seat_id,
                           passenger_name |-> cancelled_booking.passenger_name]]

\* Mutant of list_seats: range(0, TOTAL_SEATS) where the code has range(1, TOTAL_SEATS + 1)
list_seats_from_zero(bks) ==
    [i \in 1..TOTAL_SEATS |->
        [seat_id |-> i - 1,
         seat_label |-> seat_label(i - 1),
         seat_type |-> "sleeper",
         is_booked |-> is_seat_booked(bks, i - 1)]]

\* GET /seats
list_seats(bks) ==
    [seat_id \in 1..TOTAL_SEATS |->
        [seat_id |-> seat_id,
         seat_label |-> seat_label(seat_id),
         seat_type |-> "sleeper",
         is_booked |-> is_seat_booked(bks, seat_id)]]

\* GET /stations
list_stations ==
    [i \in 1..Len(STATIONS) |-> [sequence |-> i, name |-> STATIONS[i]]]

(***************************************************************************)
(* The routes: FastAPI validates the request against the handler's         *)
(* parameter types and answers 422 without calling the handler.             *)
(***************************************************************************)
ValidationError(bks) == [bookings |-> bks, status |-> 422, response |-> "Unprocessable Entity"]

post_book(bks, raw) ==
    IF BookRequestValid(BookRequest(raw)) THEN book_seat(bks, BookRequest(raw))
    ELSE ValidationError(bks)

post_meal(bks, raw) ==
    IF MealRequestValid(raw) THEN add_meal_to_booking(bks, raw) ELSE ValidationError(bks)

delete_cancel(bks, seat_id) ==
    IF CancelSeatIdValid(seat_id) THEN cancel_booking(bks, seat_id) ELSE ValidationError(bks)

(***************************************************************************)
(* The requests the clients send                                            *)
(***************************************************************************)
Blanks(k) == [i \in 1..k |-> " "]

Pad(s, k) == Blanks(k) \o s \o Blanks(k)

Padded(S) == {Pad(s, k) : s \in S, k \in 0..MaxPad}

Rep(c, n) == [i \in 1..n |-> c]

AmitRao == <<"A", "m", "i", "t", " ", "R", "a", "o">>

Pune == <<"P", "u", "n", "e">>

Jain == <<"J", "a", "i", "n">>

Vegan == <<"V", "e", "g", "a", "n">>

\* seat 2 is seeded and seat 5 is free
SeatsInRange == {2, 5}

SeatsOutOfRange == {0, TOTAL_SEATS + 1}

SeatInputs == SeatsInRange \cup SeatsOutOfRange

NameInputs == Padded({AmitRao, <<"a">>}) \cup {Rep("x", NAME_MAX_LENGTH + 1)}

\* <<pickup_station, drop_station>>
RouteInputs ==
    {<<Absent, Absent>>, <<Surat, Nadiad>>, <<Nadiad, Nadiad>>, <<Pune, Surat>>,
     <<Nadiad, Pune>>, <<Rep("y", STATION_MAX_LENGTH + 1), Surat>>,
     <<Nadiad, Rep("y", STATION_MAX_LENGTH + 1)>>}
    \cup {<<Pad(Nadiad, k), Pad(Surat, k)>> : k \in 0..MaxPad}

BookMealInputs == {Absent, None, Rep("z", MEAL_MAX_LENGTH + 1)} \cup Padded({<<>>, Jain})

MealInputs == {Rep("z", MEAL_MAX_LENGTH + 1)} \cup Padded({<<>>, <<"V">>, Jain})

BookBody(s, n, p, d, m) ==
    [seat_id |-> s, passenger_name |-> n, pickup_station |-> p, drop_station |-> d,
     meal_preference |-> m]

\* a seat in range with every name, every route and every meal; the others once
BookInputs ==
    {BookBody(s, n, Absent, Absent, Absent) : s \in SeatsInRange, n \in NameInputs}
    \cup {BookBody(s, AmitRao, rt[1], rt[2], Absent) : s \in SeatsInRange, rt \in RouteInputs}
    \cup {BookBody(s, AmitRao, Absent, Absent, m) : s \in SeatsInRange, m \in BookMealInputs}
    \cup {BookBody(s, AmitRao, Absent, Absent, Absent) : s \in SeatsOutOfRange}

MealBodies ==
    [seat_id : SeatsInRange, meal_preference : MealInputs]
    \cup [seat_id : SeatsOutOfRange, meal_preference : {Jain}]
    \cup {[seat_id |-> 99, meal_preference |-> Vegan]}

(***************************************************************************)
(* State                                                                    *)
(***************************************************************************)
VARIABLES
    bookings,   \* the module-level list `bookings`
    last,       \* the last request served and its answer
    before,     \* `bookings` as it was when that request arrived
    threads,    \* the requests the server's worker threads are serving at the
                \* same time, each with its position in the handler and its locals
                \* (seat_free: the seat check of book_seat found no booking)
    trip        \* what the requests served in a row since the last successful
                \* book_seat did: stage "booked", then "meal" (add-meal on that seat),
                \* then "cancelled" (cancel of that seat); "refused" is a second
                \* book_seat of that seat right after the first; base is the list
                \* before that book_seat; rebooked says that book_seat came right
                \* after a successful cancel_booking of the same seat

vars == <<bookings, last, before, trip, threads>>

\* the worker threads that serve requests at the same time
Threads == {1, 2}

\* a thread that has no request yet
Idle ==
    [pc |-> "idle", op |-> "none", request |-> None, seat_free |-> FALSE,
     booking_index |-> NoIndex, existing_booking |-> None, status |-> 0,
     response |-> None]

NoTrip == [stage |-> "none", seat_id |-> NoIndex, base |-> <<>>, rebooked |-> FALSE]

\* trip after the request just served
TripAfter(op, seat_id, r) ==
    IF op = "book_seat" /\ r.status = 200
    THEN [stage |-> "booked", seat_id |-> seat_id, base |-> bookings,
          rebooked |-> /\ last.op = "cancel_booking" /\ last.status = 200
                       /\ last.request = seat_id]
    ELSE IF /\ op = "add_meal_to_booking" /\ r.status = 200
            /\ trip.stage = "booked" /\ trip.seat_id = seat_id
    THEN [trip EXCEPT !.stage = "meal"]
    ELSE IF /\ op = "cancel_booking" /\ r.status = 200
            /\ trip.stage = "meal" /\ trip.seat_id = seat_id
    THEN [trip EXCEPT !.stage = "cancelled"]
    ELSE IF /\ op = "book_seat" /\ r.status = 409
            /\ trip.stage = "booked" /\ trip.seat_id = seat_id
    THEN [trip EXCEPT !.stage = "refused"]
    ELSE NoTrip

Serve(op, request, seat_id, r) ==
    /\ bookings' = r.bookings
    /\ last' = [op |-> op, request |-> request, status |-> r.status,
                response |-> r.response]
    /\ before' = bookings
    /\ trip' = TripAfter(op, seat_id, r)
    /\ UNCHANGED threads

Init ==
    /\ bookings = seed_initial_bookings
    /\ last = [op |-> "startup", request |-> None, status |-> 200, response |-> None]
    /\ before = seed_initial_bookings
    /\ trip = NoTrip
    /\ threads = [t \in Threads |-> Idle]

BookSeat ==
    \E raw \in BookInputs : Serve("book_seat", raw, raw.seat_id, post_book(bookings, raw))

AddMeal ==
    \E raw \in MealBodies :
        Serve("add_meal_to_booking", raw, raw.seat_id, post_meal(bookings, raw))

Cancel ==
    \E seat_id \in SeatInputs :
        Serve("cancel_booking", seat_id, seat_id, delete_cancel(bookings, seat_id))

ListSeats ==
    Serve("list_seats", None, NoIndex,
          [bookings |-> bookings, status |-> 200, response |-> list_seats(bookings)])

ListStations ==
    Serve("list_stations", None, NoIndex,
          [bookings |-> bookings, status |-> 200, response |-> list_stations])

Next == BookSeat \/ AddMeal \/ Cancel \/ ListSeats \/ ListStations

Spec == Init /\ [][Next]_vars

(***************************************************************************)
(* Requests served at the same time.  The handlers are plain `def`          *)
(* functions, which FastAPI runs on worker threads; nothing locks the list, *)
(* so the statements of two handlers interleave.  A step is a statement     *)
(* that reads or writes `bookings`; a request is validated before its       *)
(* handler starts.                                                          *)
(***************************************************************************)
Sunita == <<"S", "u", "n", "i", "t", "a">>

\* validated bodies: two passengers after seat 5
ConcBookRequests ==
    {BookRequest(BookBody(5, AmitRao, Absent, Absent, Absent)),
     BookRequest(BookBody(5, Sunita, Nadiad, Surat, Jain)),
     BookRequest(BookBody(2, Sunita, Absent, Absent, Absent))}

\* seats 2, 7 and 29 are the first, second and last booking of the seeded list
ConcMealRequests == [seat_id : {7, 29}, meal_preference : {Vegan}]

ConcCancelSeats == {2, 7, 29}

Finish(t, status, response) ==
    [threads EXCEPT ![t].pc = "done", ![t].status = status, ![t].response = response]

AcceptBook(t) ==
    /\ threads[t].pc = "idle"
    /\ \E request \in ConcBookRequests :
        threads' = [threads EXCEPT ![t].pc = "book_check", ![t].op = "book_seat",
                                   ![t].request = request]
    /\ UNCHANGED <<bookings, last, before, trip>>

AcceptMeal(t) ==
    /\ threads[t].pc = "idle"
    /\ \E request \in ConcMealRequests :
        threads' = [threads EXCEPT ![t].pc = "meal_find", ![t].op = "add_meal_to_booking",
                                   ![t].request = request]
    /\ UNCHANGED <<bookings, last, before, trip>>

AcceptCancel(t) ==
    /\ threads[t].pc = "idle"
    /\ \E seat_id \in ConcCancelSeats :
        threads' = [threads EXCEPT ![t].pc = "cancel_find", ![t].op = "cancel_booking",
                                   ![t].request = seat_id]
    /\ UNCHANGED <<bookings, last, before, trip>>

\* book_seat, line 149: if _is_seat_booked(request.seat_id): raise 409
BookCheck(t) ==
    /\ threads[t].pc = "book_check"
    /\ threads' =
        IF is_seat_booked(bookings, threads[t].request.seat_id)
        THEN Finish(t, 409, "Seat is already booked")
        ELSE [threads EXCEPT ![t].pc = "book_append", ![t].seat_free = TRUE]
    /\ UNCHANGED <<bookings, last, before, trip>>

\* book_seat, lines 152-162: validate the route, build the Booking, append it
BookAppend(t) ==
    /\ threads[t].pc = "book_append"
    /\ LET r == book_seat_after_check(bookings, threads[t].request)
       IN  /\ bookings' = r.bookings
           /\ threads' = Finish(t, r.status, r.response)
    /\ UNCHANGED <<last, before, trip>>

\* add_meal_to_booking, lines 167-169: booking_index = _find_booking_index(...)
MealFind(t) ==
    /\ threads[t].pc = "meal_find"
    /\ LET booking_index == find_booking_index(bookings, threads[t].request.seat_id)
       IN  threads' =
            IF booking_index = NoIndex
            THEN Finish(t, 404, "Booking not found for this seat")
            ELSE [threads EXCEPT ![t].pc = "meal_read",
                                 ![t].booking_index = booking_index]
    /\ UNCHANGED <<bookings, last, before, trip>>

\* add_meal_to_booking, line 171: existing_booking = bookings[booking_index];
\* an index past the end raises IndexError, which the server answers with 500
MealRead(t) ==
    /\ threads[t].pc = "meal_read"
    /\ threads' =
        IF threads[t].booking_index > Len(bookings)
        THEN Finish(t, 500, "Internal Server Error")
        ELSE [threads EXCEPT ![t].pc = "meal_write",
                             ![t].existing_booking = bookings[threads[t].booking_index]]
    /\ UNCHANGED <<bookings, last, before, trip>>

\* add_meal_to_booking, lines 172-174: bookings[booking_index] = updated_booking
MealWrite(t) ==
    /\ threads[t].pc = "meal_write"
    /\ LET updated_booking ==
            [threads[t].existing_booking EXCEPT
                !.meal_preference = strip(threads[t].request.meal_preference)]
       IN  IF threads[t].booking_index > Len(bookings)
           THEN /\ threads' = Finish(t, 500, "Internal Server Error")
                /\ UNCHANGED bookings
           ELSE /\ bookings' = [bookings EXCEPT ![threads[t].booking_index] = updated_booking]
                /\ threads' = Finish(t, 200, updated_booking)
    /\ UNCHANGED <<last, before, trip>>

\* cancel_booking, lines 179-181: booking_index = _find_booking_index(seat_id)
CancelFind(t) ==
    /\ threads[t].pc = "cancel_find"
    /\ LET booking_index == find_booking_index(bookings, threads[t].request)
       IN  threads' =
            IF booking_index = NoIndex
            THEN Finish(t, 404, "No active booking for this seat")
            ELSE [threads EXCEPT ![t].pc = "cancel_pop",
                                 ![t].booking_index = booking_index]
    /\ UNCHANGED <<bookings, last, before, trip>>

\* cancel_booking, lines 183-188: cancelled_booking = bookings.pop(booking_index)
CancelPop(t) ==
    /\ threads[t].pc = "cancel_pop"
    /\ IF threads[t].booking_index > Len(bookings)
       THEN /\ threads' = Finish(t, 500, "Internal Server Error")
            /\ UNCHANGED bookings
       ELSE /\ bookings' = PopAt(bookings, threads[t].booking_index)
            /\ threads' =
                Finish(t, 200,
                       [status |-> "cancelled", seat_id |-> threads[t].request,
                        passenger_name |->
                            bookings[threads[t].booking_index].passenger_name])
    /\ UNCHANGED <<last, before, trip>>

NextConc ==
    \E t \in Threads :
        \/ AcceptBook(t)
        \/ AcceptMeal(t)
        \/ AcceptCancel(t)
        \/ BookCheck(t)
        \/ BookAppend(t)
        \/ MealFind(t)
        \/ MealRead(t)
        \/ MealWrite(t)
        \/ CancelFind(t)
        \/ CancelPop(t)

\* two requests served at the same time on the seeded list
SpecConc == Init /\ [][NextConc]_vars

(***************************************************************************)
(* Vocabulary of the properties, independent of the handlers' helpers       *)
(***************************************************************************)
\* bks holds a booking of seat s
Booked(bks, s) == \E i \in 1..Len(bks) : bks[i].seat_id = s

StationNames == {STATIONS[i] : i \in 1..Len(STATIONS)}

\* the position of station name x in the fixed sequence
Position(x) == CHOOSE i \in 1..Len(STATIONS) : STATIONS[i] = x

\* t is s without its leading and trailing whitespace
IsTrimOf(t, s) ==
    \E i \in 1..(Len(s) + 1), j \in 0..Len(s) :
        /\ t = SubSeq(s, i, j)
        /\ \A k \in 1..(i - 1) : s[k] \in Whitespace
        /\ \A k \in (j + 1)..Len(s) : s[k] \in Whitespace
        /\ t # <<>> => (t[1] \notin Whitespace /\ t[Len(t)] \notin Whitespace)

\* bks without its element at position i
Without(bks, i) == [j \in 1..(Len(bks) - 1) |-> IF j < i THEN bks[j] ELSE bks[j + 1]]

\* the last request was a book_seat whose body passed the validation of BookRequest
BookServed == last.op = "book_seat" /\ BookRequestValid(BookRequest(last.request))

MealServed == last.op = "add_meal_to_booking" /\ MealRequestValid(last.request)

CancelServed == last.op = "cancel_booking" /\ CancelSeatIdValid(last.request)

(***************************************************************************)
(* Properties                                                               *)
(***************************************************************************)
\* C1: in every reachable state no two entries of the bookings list have the
\* same seat_id.
C1_OneBookingPerSeat ==
    \A i, j \in 1..Len(bookings) :
        i # j => bookings[i].seat_id # bookings[j].seat_id

\* C1 witness: a seeded seat was cancelled and booked again, with six seats booked
C1_Witness ==
    /\ last.op = "book_seat" /\ last.status = 200 /\ last.request.seat_id = 2
    /\ Len(bookings) = 6
    /\ bookings[Len(bookings)].seat_id = 2

\* C2: book_seat for a seat that already has a booking answers 409 and leaves
\* the list as it was, whatever the other fields of the request are.
C2_BookedSeatConflict ==
    (BookServed /\ Booked(before, last.request.seat_id))
        => (last.status = 409 /\ bookings = before)

\* C2 witness: the same seat booked twice in a row, the second one refused
C2_Witness ==
    /\ trip.stage = "refused"
    /\ last.op = "book_seat" /\ last.status = 409
    /\ last.request.seat_id = trip.seat_id
    /\ ~Booked(trip.base, trip.seat_id)

\* C3: every booking's pickup_station and drop_station are station names, the
\* pickup strictly before the drop in the fixed sequence.
C3_RouteInvariant ==
    \A i \in 1..Len(bookings) :
        /\ bookings[i].pickup_station \in StationNames
        /\ bookings[i].drop_station \in StationNames
        /\ Position(bookings[i].pickup_station) < Position(bookings[i].drop_station)

\* C3 witness: a booking made from padded station names is in the list while a
\* meal is added and another seat is cancelled
C3_Witness ==
    /\ \E i \in 1..Len(bookings) :
            bookings[i].pickup_station = Nadiad /\ bookings[i].drop_station = Surat
    /\ last.op = "cancel_booking" /\ last.status = 200
    /\ \E i \in 1..Len(bookings) : bookings[i].meal_preference = <<"V">>

\* the pickup and the drop of the last book_seat request, defaults applied
ReqPickup == BookRequest(last.request).pickup_station

ReqDrop == BookRequest(last.request).drop_station

\* C4 as stated: book_seat for a free seat answers 400 and leaves the list
\* unchanged whenever pickup_station or drop_station is not one of the ten
\* station names or the pickup's position is not before the drop's.
C4_AsStated ==
    (/\ BookServed /\ ~Booked(before, last.request.seat_id)
     /\ \/ ReqPickup \notin StationNames
        \/ ReqDrop \notin StationNames
        \/ Position(ReqPickup) >= Position(ReqDrop))
        => (last.status = 400 /\ bookings = before)

\* the route <<p, d>>, surrounding whitespace removed, is no pair of station
\* names with the first strictly before the second
BadRoute(p, d) ==
    ~ \E a, b \in StationNames :
        IsTrimOf(a, p) /\ IsTrimOf(b, d) /\ Position(a) < Position(b)

\* C4 amended: book_seat for a free seat answers 400 and leaves the list
\* unchanged whenever pickup_station or drop_station, with its leading and
\* trailing whitespace removed, is not one of the ten station names, or the
\* pickup's position is not strictly before the drop's.
C4_InvalidRoute ==
    (BookServed /\ ~Booked(before, last.request.seat_id) /\ BadRoute(ReqPickup, ReqDrop))
        => (last.status = 400 /\ bookings = before)

\* C4 witness: a free seat refused for a pickup equal to the drop
C4_Witness ==
    /\ BookServed /\ ~Booked(before, last.request.seat_id)
    /\ ReqPickup = Nadiad /\ ReqDrop = Nadiad
    /\ last.status = 400

\* C5: book_seat for a free seat with a valid route appends exactly one
\* booking of that seat, returns it, and leaves the earlier bookings and their
\* order unchanged.
C5_BookAppends ==
    (BookServed /\ ~Booked(before, last.request.seat_id) /\ ~BadRoute(ReqPickup, ReqDrop))
        => /\ last.status = 200
           /\ last.response.seat_id = last.request.seat_id
           /\ bookings = Append(before, last.response)

\* C6: cancel_booking of a booked seat removes exactly that booking, answers
\* "cancelled" with the seat_id and the stored passenger_name, leaves the seat
\* unbooked and every other booking in place; on the seeded list
\* cancel_booking(2) returns "Riya Shah".
C6_CancelRemoves ==
    (CancelServed /\ Booked(before, last.request))
        => /\ last.status = 200
           /\ \E i \in 1..Len(before) :
                /\ before[i].seat_id = last.request
                /\ bookings = Without(before, i)
                /\ last.response = [status |-> "cancelled", seat_id |-> last.request,
                                    passenger_name |-> before[i].passenger_name]
           /\ ~Booked(bookings, last.request)
           /\ ~list_seats(bookings)[last.request].is_booked
           /\ (before = seed_initial_bookings /\ last.request = 2)
                => last.response.passenger_name
                        = <<"R", "i", "y", "a", " ", "S", "h", "a", "h">>

\* C6 witness: cancel_booking(2) on the seeded list
C6_Witness ==
    /\ CancelServed /\ last.request = 2 /\ last.status = 200
    /\ before = seed_initial_bookings
    /\ Len(bookings) = 4

\* C7: add_meal_to_booking on a booked seat sets that booking's
\* meal_preference to the trimmed requested value and returns the record;
\* its other fields, its position, the other bookings and the length of the
\* list are unchanged.
C7_MealFrame ==
    (MealServed /\ Booked(before, last.request.seat_id))
        => /\ last.status = 200
           /\ Len(bookings) = Len(before)
           /\ \A i \in 1..Len(before) :
                IF before[i].seat_id = last.request.seat_id
                THEN /\ bookings[i].seat_id = before[i].seat_id
                     /\ bookings[i].passenger_name = before[i].passenger_name
                     /\ bookings[i].pickup_station = before[i].pickup_station
                     /\ bookings[i].drop_station = before[i].drop_station
                     /\ IsTrimOf(bookings[i].meal_preference, last.request.meal_preference)
                     /\ last.response = bookings[i]
                ELSE bookings[i] = before[i]

\* C7 witness: a padded meal given to a booking that is neither first nor last
C7_Witness ==
    /\ MealServed /\ last.status = 200
    /\ last.request.meal_preference = Pad(Jain, 1)
    /\ \E i \in 2..(Len(bookings) - 1) :
        /\ bookings[i].seat_id = last.request.seat_id
        /\ bookings[i].meal_preference = Jain
        /\ before[i].meal_preference # Jain

\* C8: add_meal_to_booking and cancel_booking for a seat in 1..30 without a
\* booking answer 404 and leave the list unchanged.
C8_NotFound ==
    /\ (MealServed /\ ~Booked(before, last.request.seat_id))
            => (last.status = 404 /\ bookings = before)
    /\ (CancelServed /\ ~Booked(before, last.request))
            => (last.status = 404 /\ bookings = before)

\* C8 witness: add-meal for a seeded seat that was cancelled earlier
C8_Witness ==
    /\ MealServed /\ last.request.seat_id = 2 /\ last.status = 404
    /\ ~Booked(bookings, 2)

\* C9: a successful book_seat(s), then add_meal_to_booking(s), then
\* cancel_booking(s), nothing in between, leaves the list as it was before
\* the booking.
C9_RoundTrip == trip.stage = "cancelled" => bookings = trip.base

\* C9 witness: a round trip from a list other than the seeded one, in which the
\* meal was changed
C9_Witness ==
    /\ trip.stage = "cancelled"
    /\ trip.base # seed_initial_bookings
    /\ Len(trip.base) = 5
    /\ last.op = "cancel_booking" /\ last.status = 200

\* C10: list_seats yields the 30 seats in ascending seat_id, is_booked true
\* exactly for the seats the list holds a booking of; it answers 200 and
\* leaves the list unchanged.
C10_ListSeats ==
    /\ LET seats == list_seats(bookings)
       IN  /\ Len(seats) = 30
           /\ \A s \in 1..30 :
                /\ seats[s].seat_id = s
                /\ seats[s].is_booked <=> Booked(bookings, s)
    /\ last.op = "list_seats"
        => /\ last.status = 200
           /\ bookings = before
           /\ Len(last.response) = 30
           /\ \A s \in 1..30 :
                /\ last.response[s].seat_id = s
                /\ last.response[s].is_booked <=> Booked(before, s)

\* C10 witness: seats listed with seat 5 booked and seat 2 cancelled
C10_Witness ==
    /\ last.op = "list_seats"
    /\ last.response[5].is_booked
    /\ ~last.response[2].is_booked
    /\ last.response[7].is_booked

\* s has neither leading nor trailing whitespace
Trimmed(s) == s = <<>> \/ (s[1] \notin Whitespace /\ s[Len(s)] \notin Whitespace)

\* C11: every booking stores passenger_name and meal_preference without
\* leading or trailing whitespace, the name of 2 to 80 characters, the meal
\* absent or of 2 to 60 characters (never empty, never one character).
C11_StoredFields ==
    \A i \in 1..Len(bookings) :
        /\ Trimmed(bookings[i].passenger_name)
        /\ Len(bookings[i].passenger_name) \in 2..80
        /\ \/ bookings[i].meal_preference = None
           \/ /\ Trimmed(bookings[i].meal_preference)
              /\ Len(bookings[i].meal_preference) \in 2..60

\* C12: a validated book_seat request ends in success, SeatConflict (409) or
\* InvalidRoute (400); a validated add_meal_to_booking or cancel_booking
\* request ends in success or NotFound (404); nothing ends in another failure.
C12_ErrorKinds ==
    /\ BookServed => last.status \in {200, 409, 400}
    /\ MealServed => last.status \in {200, 404}
    /\ CancelServed => last.status \in {200, 404}

\* the seat_id of the last request (cancel_booking's request is the seat_id)
ReqSeat == IF last.op = "cancel_booking" THEN last.request ELSE last.request.seat_id

\* C13: a book_seat, add_meal_to_booking or cancel_booking request with a
\* seat_id outside 1..30 is answered with the validation error (422) and
\* leaves the list unchanged; every booking has a seat_id in 1..30 and the
\* list never holds more than 30 bookings.
C13_SeatIdDomain ==
    /\ (last.op \in {"book_seat", "add_meal_to_booking", "cancel_booking"}
            /\ ReqSeat \notin 1..30)
        => (last.status = 422 /\ bookings = before)
    /\ \A i \in 1..Len(bookings) : bookings[i].seat_id \in 1..30
    /\ Len(bookings) <= 30

\* C13 witness: a booking for seat 31, otherwise valid, refused while six
\* seats are booked
C13_Witness ==
    /\ last.op = "book_seat" /\ last.request.seat_id = 31
    /\ last.request.passenger_name = AmitRao
    /\ last.status = 422
    /\ Len(bookings) = 6

\* C14 as stated: add_meal for seat_id 99 with meal "Vegan", seat 99 never
\* booked, fails with NotFound (404).
C14_AsStated ==
    (/\ last.op = "add_meal_to_booking"
     /\ last.request = [seat_id |-> 99, meal_preference |-> Vegan]
     /\ ~Booked(before, 99))
        => last.status = 404

\* C14 amended: add_meal for seat_id 99 with meal "Vegan" is answered with the
\* validation error (422) and the list is unchanged; NotFound (404) is
\* answered to an add_meal only for a seat_id in 1..30.
C14_OutOfRangeMeal ==
    /\ (/\ last.op = "add_meal_to_booking"
        /\ last.request = [seat_id |-> 99, meal_preference |-> Vegan])
        => (last.status = 422 /\ bookings = before)
    /\ (last.op = "add_meal_to_booking" /\ last.status = 404)
        => last.request.seat_id \in 1..30

\* C14 witness: add_meal(99, "Vegan") on the seeded list
C14_Witness ==
    /\ last.op = "add_meal_to_booking"
    /\ last.request = [seat_id |-> 99, meal_preference |-> Vegan]
    /\ before = seed_initial_bookings
    /\ last.status = 422

\* the labels of seats 1..30: "U" and the seat_id in two digits for 1..15,
\* "L" and seat_id - 15 in two digits for 16..30
ExpectedLabels ==
    <<<<"U", "0", "1">>,
      <<"U", "0", "2">>,
      <<"U", "0", "3">>,
      <<"U", "0", "4">>,
      <<"U", "0", "5">>,
      <<"U", "0", "6">>,
      <<"U", "0", "7">>,
      <<"U", "0", "8">>,
      <<"U", "0", "9">>,
      <<"U", "1", "0">>,
      <<"U", "1", "1">>,
      <<"U", "1", "2">>,
      <<"U", "1", "3">>,
      <<"U", "1", "4">>,
      <<"U", "1", "5">>,
      <<"L", "0", "1">>,
      <<"L", "0", "2">>,
      <<"L", "0", "3">>,
      <<"L", "0", "4">>,
      <<"L", "0", "5">>,
      <<"L", "0", "6">>,
      <<"L", "0", "7">>,
      <<"L", "0", "8">>,
      <<"L", "0", "9">>,
      <<"L", "1", "0">>,
      <<"L", "1", "1">>,
      <<"L", "1", "2">>,
      <<"L", "1", "3">>,
      <<"L", "1", "4">>,
      <<"L", "1", "5">>>>

\* C15: the label of seat_id is ExpectedLabels[seat_id], whatever the bookings
\* are: as _seat_label computes it and as list_seats reports it.
C15_SeatLabels ==
    /\ \A s \in 1..30 :
        /\ seat_label(s) = ExpectedLabels[s]
        /\ list_seats(bookings)[s].seat_label = ExpectedLabels[s]
    /\ last.op = "list_seats"
        => \A s \in 1..30 : last.response[s].seat_label = ExpectedLabels[s]

\* C15 witness: seats listed once seat 2 (booked at start) is free and seat 5
\* (free at start) is booked
C15_Witness ==
    /\ last.op = "list_seats"
    /\ last.response[15].seat_label = <<"U", "1", "5">>
    /\ last.response[16].seat_label = <<"L", "0", "1">>
    /\ last.response[30].seat_label = <<"L", "1", "5">>
    /\ ~Booked(bookings, 2) /\ Booked(bookings, 5)

\* C18: a validated book_seat request for a booked seat with an invalid route
\* answers 409, never 400; 400 is answered only for a seat that is free.
C18_ConflictFirst ==
    /\ (BookServed /\ Booked(before, last.request.seat_id) /\ BadRoute(ReqPickup, ReqDrop))
        => last.status = 409
    /\ (last.op = "book_seat" /\ last.status = 400)
        => ~Booked(before, last.request.seat_id)

\* C18 witness: a booked seat requested with an unknown pickup station
C18_Witness ==
    /\ BookServed /\ Booked(before, last.request.seat_id)
    /\ ReqPickup = Pune
    /\ last.status = 409

\* the passenger_name of the last book_seat request has 2 to 80 characters
\* once its leading and trailing whitespace is removed
NameFits ==
    \E t \in {SubSeq(last.request.passenger_name, i, j) :
                i \in 1..(Len(last.request.passenger_name) + 1),
                j \in 0..Len(last.request.passenger_name)} :
        IsTrimOf(t, last.request.passenger_name) /\ Len(t) \in 2..80

\* C19: a validated book_seat request with a valid route and a name of 2 to
\* 80 characters after trimming succeeds if and only if the seat has no
\* booking; so in every reachable state every free seat can be booked, also
\* right after its cancellation.
C19_BookableAgain ==
    /\ (BookServed /\ ~BadRoute(ReqPickup, ReqDrop) /\ NameFits)
        => (last.status = 200 <=> ~Booked(before, last.request.seat_id))
    /\ \A s \in SeatsInRange :
        ~Booked(bookings, s)
            => post_book(bookings, BookBody(s, AmitRao, Absent, Absent, Absent)).status = 200
    /\ (last.op = "cancel_booking" /\ last.status = 200)
        => post_book(bookings, BookBody(last.request, AmitRao, Absent, Absent, Absent)).status
                = 200

\* C19 witness: seat 5 booked again right after its cancellation, in a list
\* where seat 2 was cancelled and booked again before
C19_Witness ==
    /\ last.op = "book_seat" /\ last.status = 200 /\ last.request.seat_id = 5
    /\ trip.stage = "booked" /\ trip.rebooked
    /\ ~Booked(before, 5)
    /\ bookings[Len(bookings)].seat_id = 5
    /\ \E i \in 1..Len(bookings) :
        bookings[i].seat_id = 2 /\ bookings[i].passenger_name = AmitRao

\* the number of bookings of seat s in bks
Count(bks, s) == Cardinality({i \in 1..Len(bks) : bks[i].seat_id = s})

\* the booking of seat s in the seeded list
SeedOf(s) ==
    seed_initial_bookings[CHOOSE i \in 1..Len(seed_initial_bookings) :
                            seed_initial_bookings[i].seat_id = s]

SeededSeats == {seed_initial_bookings[i].seat_id : i \in 1..Len(seed_initial_bookings)}

\* C16: when two book_seat requests for the same seat both pass the seat
\* check before either appends, both return success and the list holds two
\* bookings of that seat.
C16_BookRace ==
    \A t, u \in Threads :
        (/\ t # u
         /\ threads[t].op = "book_seat" /\ threads[u].op = "book_seat"
         /\ threads[t].request.seat_id = threads[u].request.seat_id
         /\ threads[t].seat_free /\ threads[u].seat_free
         /\ threads[t].pc = "done" /\ threads[u].pc = "done")
            => /\ threads[t].status = 200
               /\ threads[u].status = 200
               /\ Count(bookings, threads[t].request.seat_id) = 2

\* C16 witness: seat 5 booked twice, for two passengers, both answered 200
C16_Witness ==
    /\ threads[1].pc = "done" /\ threads[2].pc = "done"
    /\ threads[1].op = "book_seat" /\ threads[2].op = "book_seat"
    /\ threads[1].status = 200 /\ threads[2].status = 200
    /\ threads[1].response.passenger_name = AmitRao
    /\ threads[2].response.passenger_name = Sunita
    /\ Count(bookings, 5) = 2
    /\ bookings[Len(bookings)].seat_id = 5
    /\ bookings[Len(bookings) - 1].seat_id = 5

\* C17: while add_meal_to_booking for seat A runs at the same time as
\* cancel_booking for another seat B, the booking of every other seat stays
\* as it was (not overwritten, not removed, its meal not updated), the
\* booking of B is as it was or removed, and there are never two bookings
\* of A.
C17_MealOnlyOwnSeat ==
    \A t, u \in Threads :
        (/\ threads[t].op = "add_meal_to_booking"
         /\ threads[u].op = "cancel_booking"
         /\ threads[t].request.seat_id # threads[u].request)
            => LET A == threads[t].request.seat_id
                   B == threads[u].request
               IN  /\ \A s \in SeededSeats \ {A, B} :
                        /\ Count(bookings, s) = 1
                        /\ \E i \in 1..Len(bookings) : bookings[i] = SeedOf(s)
                   /\ \A i \in 1..Len(bookings) :
                        bookings[i].seat_id = B => bookings[i] = SeedOf(B)
                   /\ Count(bookings, A) <= 1

====
